---- MODULE Spec2Model ----
(***************************************************************************)
(* Model of src/html/pets.rs: the struct Animal and the two immutable      *)
(* statics PETS and NEARBY_DUCK.                                           *)
(*                                                                         *)
(* The file declares data only.  Both items are `static` (not `static      *)
(* mut`) and Animal has no interior mutability (&'static str, bool), so    *)
(* the only access the language admits is a shared read: indexing PETS     *)
(* within its declared length, or reading NEARBY_DUCK.  The state is the   *)
(* static memory plus, for each of a bounded number of readers, the        *)
(* value it currently holds from such a read.                              *)
(***************************************************************************)
EXTENDS Naturals, Sequences, FiniteSets

\* Number of concurrent readers of the statics (bound of the model).
NumReaders == 3

Readers == 1..NumReaders

\* `[Animal; 4]`: the declared length of PETS.
PetsLen == 4

\* A wrong struct literal: the meal_needed field is left out.
AnimalNoMeal(kind, is_hungry, meal_needed) ==
    [kind |-> kind, is_hungry |-> is_hungry]

\* struct Animal { kind, is_hungry, meal_needed }
Animal(kind, is_hungry, meal_needed) ==
    [kind |-> kind, is_hungry |-> is_hungry, meal_needed |-> meal_needed]

\* Wrong tables, each one plausible slip in the PETS literal.
PETS_NoLion ==
    << Animal("Dog", TRUE, "Kibble"),
       Animal("Python", FALSE, "Cat"),
       Animal("Cat", TRUE, "Kibble") >>

PETS_DogFed ==
    << Animal("Dog", FALSE, "Kibble"),
       Animal("Python", FALSE, "Cat"),
       Animal("Cat", TRUE, "Kibble"),
       Animal("Lion", FALSE, "Kibble") >>

PETS_Swapped ==
    << Animal("Dog", TRUE, "Kibble"),
       Animal("Cat", TRUE, "Kibble"),
       Animal("Python", FALSE, "Cat"),
       Animal("Lion", FALSE, "Kibble") >>

PETS_TwoCats ==
    << Animal("Dog", TRUE, "Kibble"),
       Animal("Python", FALSE, "Cat"),
       Animal("Cat", TRUE, "Kibble"),
       Animal("Cat", FALSE, "Kibble") >>

PETS_LionEatsDog ==
    << Animal("Dog", TRUE, "Kibble"),
       Animal("Python", FALSE, "Cat"),
       Animal("Cat", TRUE, "Kibble"),
       Animal("Lion", FALSE, "Dog") >>

\* static PETS: [Animal; 4] = [ ... ];  (index i of the array is PETS[i + 1])
PETS ==
    << Animal("Dog", TRUE, "Kibble"),
       Animal("Python", FALSE, "Cat"),
       Animal("Cat", TRUE, "Kibble"),
       Animal("Lion", FALSE, "Kibble") >>

\* A wrong literal: the meal is capitalised.
NEARBY_DUCK_Capital == Animal("Duck", TRUE, "Pondweed")

\* static NEARBY_DUCK: Animal = Animal { ... };
NEARBY_DUCK == Animal("Duck", TRUE, "pondweed")

VARIABLES
    pets,          \* the memory of the static PETS
    nearby_duck,   \* the memory of the static NEARBY_DUCK
    obs            \* obs[r]: <<>> or the one observation reader r holds

vars == << pets, nearby_duck, obs >>

Init ==
    /\ pets = PETS
    /\ nearby_duck = NEARBY_DUCK
    /\ obs = [r \in Readers |-> << >>]

\* What a reader holds after reading item `item` (index idx) with value val.
Observation(item, idx, val) == [item |-> item, idx |-> idx, val |-> val]

\* A read that also writes, as a `static mut` would allow: the pet is fed.
ReadPetMut(r, i) ==
    /\ obs[r] = << >>
    /\ obs' = [obs EXCEPT ![r] = << Observation("PETS", i, pets[i + 1]) >>]
    /\ pets' = [pets EXCEPT ![i + 1].is_hungry = FALSE]
    /\ UNCHANGED nearby_duck

\* Reader r reads PETS[i]: a shared read of an immutable static.
ReadPet(r, i) ==
    /\ obs[r] = << >>
    /\ obs' = [obs EXCEPT ![r] = << Observation("PETS", i, pets[i + 1]) >>]
    /\ UNCHANGED << pets, nearby_duck >>

\* A read that also writes, as a `static mut` would allow: the duck is fed.
ReadDuckMut(r) ==
    /\ obs[r] = << >>
    /\ obs' = [obs EXCEPT ![r] = << Observation("NEARBY_DUCK", 0, nearby_duck) >>]
    /\ nearby_duck' = [nearby_duck EXCEPT !.is_hungry = FALSE]
    /\ UNCHANGED pets

\* Reader r reads NEARBY_DUCK: a shared read of an immutable static.
ReadDuck(r) ==
    /\ obs[r] = << >>
    /\ obs' = [obs EXCEPT ![r] = << Observation("NEARBY_DUCK", 0, nearby_duck) >>]
    /\ UNCHANGED << pets, nearby_duck >>

\* Reader r lets go of what it read; the statics live on ('static).
Release(r) ==
    /\ obs[r] # << >>
    /\ obs' = [obs EXCEPT ![r] = << >>]
    /\ UNCHANGED << pets, nearby_duck >>

Next ==
    \E r \in Readers :
        \/ \E i \in 0..(PetsLen - 1) : ReadPet(r, i)
        \/ ReadDuck(r)
        \/ Release(r)

Spec == Init /\ [][Next]_vars

----------------------------------------------------------------------------
\* Helpers of the properties.

\* All records of the fragment, PETS first, then NEARBY_DUCK.
Records == pets \o << nearby_duck >>

Holding(r) == obs[r] # << >>

Held(r) == obs[r][1]

HoldsPet(r, i) == Holding(r) /\ Held(r).item = "PETS" /\ Held(r).idx = i

HoldsDuck(r) == Holding(r) /\ Held(r).item = "NEARBY_DUCK"

----------------------------------------------------------------------------
\* C1: the record set is exactly the 4 entries of PETS plus the 1 entry
\* NEARBY_DUCK: 5 Animal records in total and no others.
C1_RecordCount ==
    /\ Len(pets) = 4
    /\ Len(Records) = 5
    /\ Records[5] = nearby_duck

\* Readers hold the first and the last entry of PETS and the one entry
\* NEARBY_DUCK at the same time.
C1_Witness ==
    /\ Len(pets) = 4
    /\ \E r1, r2, r3 \in Readers :
          HoldsPet(r1, 0) /\ HoldsPet(r2, 3) /\ HoldsDuck(r3)

\* C2: PETS has an entry of kind "Dog", and every entry of kind "Dog" is
\* hungry and needs "Kibble".
C2_DogHungryKibble ==
    /\ \E k \in 1..Len(pets) : pets[k].kind = "Dog"
    /\ \A k \in 1..Len(pets) :
          pets[k].kind = "Dog" =>
              pets[k].is_hungry = TRUE /\ pets[k].meal_needed = "Kibble"

\* A reader holds the Dog entry it read from PETS.
C2_Witness ==
    \E r \in Readers :
        /\ Holding(r)
        /\ Held(r).item = "PETS"
        /\ Held(r).val.kind = "Dog"
        /\ Held(r).val.is_hungry
        /\ Held(r).val.meal_needed = "Kibble"

\* C3: NEARBY_DUCK is of kind "Duck", hungry, and needs "pondweed",
\* lower-case as written.
C3_NearbyDuck ==
    /\ nearby_duck.kind = "Duck"
    /\ nearby_duck.is_hungry = TRUE
    /\ nearby_duck.meal_needed = "pondweed"
    /\ nearby_duck.meal_needed # "Pondweed"

\* A reader holds the duck it read from NEARBY_DUCK.
C3_Witness ==
    \E r \in Readers :
        /\ HoldsDuck(r)
        /\ Held(r).val.kind = "Duck"
        /\ Held(r).val.is_hungry
        /\ Held(r).val.meal_needed = "pondweed"

\* C4: the record set is constant data: in every reachable state PETS and
\* NEARBY_DUCK hold the values of the initial state; no step changes, adds
\* or removes a record or a field value.
C4_ConstantData ==
    /\ pets = PETS
    /\ nearby_duck = NEARBY_DUCK

\* Every reader has read (NEARBY_DUCK among the reads) and the statics are
\* what they were.
C4_Witness ==
    /\ \A r \in Readers : Holding(r)
    /\ \E r \in Readers : HoldsDuck(r)
    /\ \E r \in Readers : \E i \in 0..(PetsLen - 1) : HoldsPet(r, i)
    /\ pets = PETS
    /\ nearby_duck = NEARBY_DUCK

\* C5: each of the 5 records has exactly the fields kind, is_hungry and
\* meal_needed; kind and meal_needed are strings, is_hungry is a boolean.
C5_FieldsAndTypes ==
    /\ Len(Records) = 5
    /\ \A k \in 1..Len(Records) :
          /\ DOMAIN Records[k] = {"kind", "is_hungry", "meal_needed"}
          /\ Records[k].kind \in STRING
          /\ Records[k].is_hungry \in BOOLEAN
          /\ Records[k].meal_needed \in STRING

\* Readers hold a PETS entry and the duck, each with its three fields.
C5_Witness ==
    \E r1, r2 \in Readers :
        /\ HoldsPet(r1, 1)
        /\ HoldsDuck(r2)
        /\ DOMAIN Held(r1).val = {"kind", "is_hungry", "meal_needed"}
        /\ DOMAIN Held(r2).val = {"kind", "is_hungry", "meal_needed"}

\* C6: concurrent readers, under every interleaving and with no
\* coordination, observe the same values: two readers that hold the same
\* item hold equal records, and each is the record now in the static.
C6_ReadersAgree ==
    \A r1, r2 \in Readers :
        (/\ Holding(r1)
         /\ Holding(r2)
         /\ Held(r1).item = Held(r2).item
         /\ Held(r1).idx = Held(r2).idx)
        => /\ Held(r1).val = Held(r2).val
           /\ Held(r1).val = IF Held(r1).item = "PETS"
                                THEN pets[Held(r1).idx + 1]
                                ELSE nearby_duck

\* Two different readers hold the same PETS entry while a third holds the
\* duck.
C6_Witness ==
    \E r1, r2, r3 \in Readers :
        /\ r1 # r2
        /\ HoldsPet(r1, 2)
        /\ HoldsPet(r2, 2)
        /\ HoldsDuck(r3)

\* C8: PETS is, in index order 0..3, (Dog, hungry, Kibble), (Python, not
\* hungry, Cat), (Cat, hungry, Kibble), (Lion, not hungry, Kibble); exactly
\* two entries are hungry (Dog and Cat) and every hungry entry needs Kibble.
C8_PetsInOrder ==
    /\ Len(pets) = 4
    /\ pets[1].kind = "Dog"    /\ pets[1].is_hungry = TRUE
    /\ pets[1].meal_needed = "Kibble"
    /\ pets[2].kind = "Python" /\ pets[2].is_hungry = FALSE
    /\ pets[2].meal_needed = "Cat"
    /\ pets[3].kind = "Cat"    /\ pets[3].is_hungry = TRUE
    /\ pets[3].meal_needed = "Kibble"
    /\ pets[4].kind = "Lion"   /\ pets[4].is_hungry = FALSE
    /\ pets[4].meal_needed = "Kibble"
    /\ Cardinality({k \in 1..Len(pets) : pets[k].is_hungry}) = 2
    /\ {pets[k].kind : k \in {j \in 1..Len(pets) : pets[j].is_hungry}}
          = {"Dog", "Cat"}
    /\ \A k \in 1..Len(pets) :
          pets[k].is_hungry => pets[k].meal_needed = "Kibble"

\* Readers hold indices 1 and 2 and saw Python, then Cat.
C8_Witness ==
    \E r1, r2 \in Readers :
        /\ HoldsPet(r1, 1) /\ Held(r1).val.kind = "Python"
        /\ HoldsPet(r2, 2) /\ Held(r2).val.kind = "Cat"

\* C9: the kinds of the 5 records are pairwise distinct (Dog, Python, Cat,
\* Lion, Duck): no two PETS entries share a kind and NEARBY_DUCK's kind is
\* not in PETS, so a kind identifies at most one record.
C9_KindsDistinct ==
    /\ \A j, k \in 1..Len(Records) :
          Records[j].kind = Records[k].kind => j = k
    /\ \A k \in 1..Len(pets) : pets[k].kind # nearby_duck.kind
    /\ {Records[k].kind : k \in 1..Len(Records)}
          = {"Dog", "Python", "Cat", "Lion", "Duck"}

\* Readers hold records of three different kinds, the duck among them.
C9_Witness ==
    \E r1, r2, r3 \in Readers :
        /\ HoldsPet(r1, 2)
        /\ HoldsPet(r2, 3)
        /\ HoldsDuck(r3)
        /\ Held(r1).val.kind # Held(r2).val.kind
        /\ Held(r1).val.kind # Held(r3).val.kind
        /\ Held(r2).val.kind # Held(r3).val.kind

\* The kinds present in the record set.
Kinds == {Records[k].kind : k \in 1..Len(Records)}

\* C10 as stated: for every record, meal_needed is not the kind of any
\* record of the set (PETS plus NEARBY_DUCK).
C10_NoMealIsAKind ==
    \A k \in 1..Len(Records) : Records[k].meal_needed \notin Kinds

\* C10 as amended: the one record whose meal_needed is the kind of a record
\* is PETS[1] (Python), whose meal "Cat" is the kind of PETS[2]; no other
\* record's meal_needed is the kind of any record.
C10_OnlyPythonMealIsAKind ==
    /\ {k \in 1..Len(Records) : Records[k].meal_needed \in Kinds} = {2}
    /\ Records[2].kind = "Python"
    /\ Records[2].meal_needed = Records[3].kind
    /\ Records[3].kind = "Cat"

\* Readers hold the Python entry and the Cat entry it needs as a meal.
C10_Witness ==
    \E r1, r2 \in Readers :
        /\ HoldsPet(r1, 1)
        /\ HoldsPet(r2, 2)
        /\ Held(r1).val.meal_needed = Held(r2).val.kind

====
